---------------------------- MODULE Spec2Model ----------------------------
(***************************************************************************)
(* A model of the OCR inference-client adapter of nv-ingest                *)
(* (OCRModelInterface and get_ocr_model_name in                            *)
(*  api/src/nv_ingest_api/internal/primitives/nim/model_interface/ocr.py). *)
(*                                                                         *)
(* Python values are modelled as tagged records (a list with its items, a  *)
(* string with its characters, a number with its value) so that the three  *)
(* stay distinguishable after json.loads; floats are                       *)
(* modelled as exact rationals <<numerator, denominator>>; a call's        *)
(* outcome is a record [err, val] where err is "none" or the name of the   *)
(* exception the call raised.                                              *)
(***************************************************************************)
EXTENDS Integers, Sequences, FiniteSets, TLC

\* ------------------------------------------------------------------ bounds
\* Largest number of images in one input set, one reply or one geometry list.
MaxImages == 2
\* Largest number of detections of one image.
MaxDetections == 2
\* Largest max_batch_size handed to format_input.
MaxBatchSize == 3
\* Largest number of get_ocr_model_name calls in one run.
MaxResolveCalls == 3

VARIABLES
    \* --- CoordinateRemapper called directly (_postprocess_ocr_response)
    remapIn,    \* the arguments of the call: boxes, texts, confs, dims, idx
    remapOut,   \* the last call's flags and outcome
    \* --- ResponseParser (parse_output) on the two encodings of one reply
    parseIn,    \* the detections of the reply, the batch's data, the model name
    parseOut,   \* protocol -> outcome of parse_output with that protocol
    \* --- the gRPC parser on one column of cells under several shapes
    shapeIn,    \* the three cells, the geometry list, the model name
    shapeOut,   \* outcome for shape (3,), for shape (3,1), and the last other call
    \* --- BatchPreprocessor / ProtocolFormatter
    callerData, \* the caller's mapping, updated in place by the calls
    prepOut,    \* the last prepare_data_for_inference call: the mapping it got, its outcome
    fmtOut,     \* the last format_input call: its arguments and outcome
    \* --- ModelNameResolver (get_ocr_model_name)
    env,        \* the environment variable OCR_MODEL_NAME: [set, v]
    cache,      \* the process-wide result cache: call arguments -> [hit, v]
    callCount,  \* the cache's count of calls
    at,         \* where the current call stands: "idle", "try", "query", "decide", "store", "done"
    cur,        \* the current (or last) call
    \* --- the embedding storage stage (embedding_storage_stage.py)
    stack,      \* the operations being executed, innermost first
    phase,      \* "idle", "running", "raising" or "done"
    flying,     \* the exception on its way to the caller, followed by its chain
    first,      \* the first exception of the call and the operation that raised it
    outer       \* the operation the caller called, and whether it reached upload

remapVars == <<remapIn, remapOut>>
parseVars == <<parseIn, parseOut>>
shapeVars == <<shapeIn, shapeOut>>
formatVars == <<callerData, prepOut, fmtOut>>
resolveVars == <<env, cache, callCount, at, cur>>
storageVars == <<stack, phase, flying, first, outer>>
vars == <<remapIn, remapOut, parseIn, parseOut, shapeIn, shapeOut,
          callerData, prepOut, fmtOut, env, cache, callCount, at, cur,
          stack, phase, flying, first, outer>>

\* ------------------------------------------------------- outcomes of a call
Ok(v) == [err |-> "none", val |-> v]
Raise(e) == [err |-> e, val |-> <<>>]
NotCalled == [err |-> "not called", val |-> <<>>]

\* An Optional value: dict.get(key) and parameters defaulting to None.
Some(v) == [some |-> TRUE, v |-> v]
None == [some |-> FALSE, v |-> <<>>]

\* ---------------------------------------------------- floats, as rationals
Abs(n) == IF n < 0 THEN -n ELSE n

RECURSIVE Gcd(_, _)
Gcd(a, b) == IF b = 0 THEN a ELSE Gcd(b, a % b)

\* The rational n/d in lowest terms with a positive denominator (d # 0).
Rat(n, d) ==
    LET g == Gcd(Abs(n), Abs(d))
        s == IF d < 0 THEN -1 ELSE 1
    IN  <<(s * n) \div g, (s * d) \div g>>

RatMul(a, b) == Rat(a[1] * b[1], a[2] * b[2])
RatSub(a, b) == Rat(a[1] * b[2] - b[1] * a[2], a[2] * b[2])
\* a / b for b # 0
RatDiv(a, b) == Rat(a[1] * b[2], a[2] * b[1])
RatOne == <<1, 1>>
RatZero == <<0, 1>>

\* ------------------------------------------------------------ Python values
\* The tag t says which of the three fields holds the value.
PyList(s) == [t |-> "list", items |-> s, chars |-> <<>>, num |-> <<0, 1>>]
PyStr(s) == [t |-> "str", items |-> <<>>, chars |-> s, num |-> <<0, 1>>]
PyNum(r) == [t |-> "num", items |-> <<>>, chars |-> <<>>, num |-> r]

\* The sentinel the backend sends for a polygon it could not compute.
NanStr == PyStr(<<"n", "a", "n">>)

\* iter(v): the items a for loop or zip draws from v; a str yields its
\* characters, a number is not iterable (TypeError).
Iterable(v) == v.t \in {"list", "str"}
Items(v) ==
    IF v.t = "list" THEN v.items
    ELSE [i \in 1..Len(v.chars) |-> PyStr(<<v.chars[i]>>)]

Min(a, b) == IF a < b THEN a ELSE b
Min3(a, b, c) == Min(a, Min(b, c))

SeqsUpTo(S, n) == UNION {[1..k -> S] : k \in 0..n}

\* ------------------------------------------------------------- Geometry
\* The per-image records the preprocessing step leaves in "image_dims".
\* GeomPadded is the geometry of the spec's worked example; GeomPlain is what
\* the http branch of format_input writes (no padding, no scale factor).
GeomPadded ==
    [new_width |-> <<100, 1>>, new_height |-> <<50, 1>>,
     pad_width |-> <<5, 1>>, pad_height |-> <<0, 1>>, scale_factor |-> <<2, 1>>]
GeomPlain == [new_width |-> <<4, 1>>, new_height |-> <<2, 1>>]
GeomShrunk ==
    [new_width |-> <<8, 1>>, new_height |-> <<6, 1>>,
     pad_width |-> <<0, 1>>, pad_height |-> <<3, 1>>, scale_factor |-> <<1, 2>>]
Geometries == {GeomPadded, GeomPlain, GeomShrunk}

\* dict.get(key, default)
DictGet(d, k, default) == IF k \in DOMAIN d THEN d[k] ELSE default

\* ------------------------------------------ _postprocess_ocr_response
\* float(point[k]) for k = 0, 1 (here 1, 2): a number is not subscriptable, a
\* short list has no such index, and only a number converts to a float (the
\* strings of this model hold letters, which float() rejects).
PointCoord(point, k) ==
    IF point.t = "num" THEN Raise("TypeError")
    ELSE IF Len(Items(point)) < k THEN Raise("IndexError")
    ELSE LET c == Items(point)[k]
         IN  IF c.t = "num" THEN Ok(c.num)
             ELSE IF c.t = "str" THEN Raise("ValueError")
             ELSE Raise("TypeError")

\* x_pixels = float(point[0]) * max_width - pad_width
PixelsMissingPad(c, max_extent, pad) == RatMul(c, max_extent)
Pixels(c, max_extent, pad) == RatSub(RatMul(c, max_extent), pad)

\* x_original = x_pixels / scale_factor
Original(pixels, scale_factor) == RatDiv(pixels, scale_factor)

\* The body of "for point in box": one point mapped with the parameters P.
RemapPoint(point, P) ==
    LET x == PointCoord(point, 1)
        y == PointCoord(point, 2)
    IN  IF x.err # "none" THEN x
        ELSE IF y.err # "none" THEN y
        ELSE IF P.scale_factor[1] = 0 THEN Raise("ZeroDivisionError")
        ELSE Ok(<<Original(Pixels(x.val, P.max_width, P.pad_width), P.scale_factor),
                  Original(Pixels(y.val, P.max_height, P.pad_height), P.scale_factor)>>)

RECURSIVE RemapPoints(_, _, _, _)
RemapPoints(pts, k, P, acc) ==
    IF k > Len(pts) THEN Ok(acc)
    ELSE LET p == RemapPoint(pts[k], P)
         IN  IF p.err # "none" THEN p
             ELSE RemapPoints(pts, k + 1, P, Append(acc, p.val))

\* "for point in box: ... points.append(...)"
RemapBox(box, P) ==
    IF ~Iterable(box) THEN Raise("TypeError")
    ELSE RemapPoints(Items(box), 1, P, <<>>)

\* if box == "nan": continue
NeverSkipped(box) == FALSE
Skipped(box) == box = NanStr

EmptyResult == [bboxes |-> <<>>, texts |-> <<>>, confs |-> <<>>]

\* The loop over zip(bounding_boxes, text_predictions, conf_scores), from the
\* k-th triple on; zip stops at the shortest of the three.
RECURSIVE RemapLoop(_, _, _, _, _, _)
RemapLoop(bs, ts, cs, k, P, acc) ==
    IF k > Min3(Len(bs), Len(ts), Len(cs)) THEN Ok(acc)
    ELSE IF Skipped(bs[k]) THEN RemapLoop(bs, ts, cs, k + 1, P, acc)
    ELSE LET pts == RemapBox(bs[k], P)
         IN  IF pts.err # "none" THEN pts
             ELSE RemapLoop(bs, ts, cs, k + 1, P,
                     [bboxes |-> Append(acc.bboxes, pts.val),
                      texts |-> Append(acc.texts, ts[k]),
                      confs |-> Append(acc.confs, cs[k])])

\* The geometry the call reads: dims[img_index], or dims[0] when img_index
\* is out of range (indices count from 0 as in the source).
LastWhenOutOfRange(dims, img_index) ==
    dims[(IF img_index >= Len(dims) THEN Len(dims) - 1 ELSE img_index) + 1]
GeometryAt(dims, img_index) ==
    dims[(IF img_index >= Len(dims) THEN 0 ELSE img_index) + 1]

\* max_width, max_height, pad_width, pad_height and scale_factor as the two
\* flags select them.
RemapParams(g, scale_coordinates, shift_coordinates) ==
    [max_width |-> IF scale_coordinates THEN g["new_width"] ELSE RatOne,
     max_height |-> IF scale_coordinates THEN g["new_height"] ELSE RatOne,
     pad_width |-> IF shift_coordinates THEN DictGet(g, "pad_width", RatZero) ELSE RatZero,
     pad_height |-> IF shift_coordinates THEN DictGet(g, "pad_height", RatZero) ELSE RatZero,
     scale_factor |-> IF scale_coordinates THEN DictGet(g, "scale_factor", RatOne) ELSE RatOne]

\* dims is an Optional list of geometries; the three sequences are Python
\* values.  The result holds the kept polygons (sequences of <<x, y>>), and the
\* texts and confidences as they came in.
_postprocess_ocr_response(bounding_boxes, text_predictions, conf_scores, dims, img_index, scale_coordinates, shift_coordinates) ==
    IF ~dims.some \/ Len(dims.v) = 0 THEN Raise("ValueError")
    ELSE LET g == GeometryAt(dims.v, img_index)
         IN  IF scale_coordinates /\ ~({"new_width", "new_height"} \subseteq DOMAIN g)
             THEN Raise("KeyError")
             ELSE IF ~(Iterable(bounding_boxes) /\ Iterable(text_predictions)
                       /\ Iterable(conf_scores))
             THEN Raise("TypeError")
             ELSE RemapLoop(Items(bounding_boxes), Items(text_predictions),
                            Items(conf_scores), 1,
                            RemapParams(g, scale_coordinates, shift_coordinates),
                            EmptyResult)

\* --------------------------------------------------------------- json.loads
\* A JSON document is a tree of arrays, strings and numbers; a cell of a gRPC
\* reply holds the UTF-8 bytes of one document, or bytes that are no JSON.
JArray(s) == [t |-> "array", items |-> s, chars |-> <<>>, num |-> <<0, 1>>]
JString(s) == [t |-> "string", items |-> <<>>, chars |-> s, num |-> <<0, 1>>]
JNumber(r) == [t |-> "number", items |-> <<>>, chars |-> <<>>, num |-> r]
Bytes(doc) == [valid |-> TRUE, doc |-> doc]

RECURSIVE JsonValue(_)
JsonValue(j) ==
    IF j.t = "array" THEN PyList([i \in 1..Len(j.items) |-> JsonValue(j.items[i])])
    ELSE IF j.t = "string" THEN PyStr(j.chars)
    ELSE PyNum(j.num)

\* json.loads(cell.decode("utf8"))
JsonLoads(cell) ==
    IF cell.valid THEN Ok(JsonValue(cell.doc)) ELSE Raise("JSONDecodeError")

\* ----------------------------- _extract_content_from_ocr_http_response
\* One item of json_response["data"]: the three lists built from its
\* "text_detections" (absent: []).
HttpItemLists(item) ==
    LET tds == DictGet(item, "text_detections", <<>>)
    IN  [boxes |-> PyList([k \in 1..Len(tds) |->
                     PyList([q \in 1..Len(tds[k].bounding_box.points) |->
                        PyList(<<tds[k].bounding_box.points[q].x,
                                 tds[k].bounding_box.points[q].y>>)])]),
         texts |-> PyList([k \in 1..Len(tds) |-> tds[k].text_prediction.text]),
         confs |-> PyList([k \in 1..Len(tds) |-> tds[k].text_prediction.confidence])]

\* The geometry index handed to the remapper for the reply element at
\* (0-based) position i: img_index=item_idx, img_index=i.
ImgIndex(i) == i

RECURSIVE HttpLoop(_, _, _, _)
HttpLoop(items, k, dimensions, results) ==
    IF k > Len(items) THEN Ok(results)
    ELSE LET l == HttpItemLists(items[k])
             r == _postprocess_ocr_response(l.boxes, l.texts, l.confs, dimensions,
                                            ImgIndex(k - 1), TRUE, TRUE)
         IN  IF r.err # "none" THEN r
             ELSE HttpLoop(items, k + 1, dimensions, Append(results, r.val))

_extract_content_from_ocr_http_response(json_response, dimensions) ==
    IF "data" \notin DOMAIN json_response \/ Len(json_response["data"]) = 0
    THEN Raise("RuntimeError")
    ELSE HttpLoop(json_response["data"], 1, dimensions, <<>>)

\* ----------------------------- _extract_content_from_ocr_grpc_response
\* A response is [isarray, shape, cells]: whether it is a NumPy array, its
\* shape, and its cells in row-major order.
NumCells(shape) ==
    IF Len(shape) = 0 THEN 1
    ELSE IF Len(shape) = 1 THEN shape[1]
    ELSE IF Len(shape) = 2 THEN shape[1] * shape[2]
    ELSE shape[1] * shape[2] * shape[3]

\* response[row, i] of a (3, n) array (row and i count from 0)
Cell(cells, n, row, i) == cells[row * n + i + 1]

\* if isinstance(v, list) and len(v) == 1: v = v[0]
Unwrap(v) == IF v.t = "list" /\ Len(v.items) = 1 THEN v.items[1] ELSE v

\* scale_coordinates=True if model_name == "paddle" else False
ScaleFlag(model_name) == model_name = "paddle"

RECURSIVE GrpcLoop(_, _, _, _, _, _)
GrpcLoop(cells, n, i, dimensions, model_name, results) ==
    IF i >= n THEN Ok(results)
    ELSE LET b == JsonLoads(Cell(cells, n, 0, i))
             t == JsonLoads(Cell(cells, n, 1, i))
             c == JsonLoads(Cell(cells, n, 2, i))
         IN  IF b.err # "none" THEN b
             ELSE IF t.err # "none" THEN t
             ELSE IF c.err # "none" THEN c
             ELSE LET r == _postprocess_ocr_response(
                              Unwrap(b.val), Unwrap(t.val), Unwrap(c.val),
                              dimensions, ImgIndex(i), ScaleFlag(model_name), TRUE)
                  IN  IF r.err # "none" THEN r
                      ELSE GrpcLoop(cells, n, i + 1, dimensions, model_name,
                                    Append(results, r.val))

\* The shape after "if response.ndim == 1 and response.shape == (3,):
\* response = response.reshape(3, 1)"
NoReshape(shape) == shape
Reshaped(shape) == IF shape = <<3>> THEN <<3, 1>> ELSE shape

\* "elif response.ndim != 2 or response.shape[0] != 3"
ShapeAccepted(shape) == Len(shape) = 2 /\ shape[1] = 3

_extract_content_from_ocr_grpc_response(response, dimensions, model_name) ==
    IF ~response.isarray THEN Raise("ValueError")
    ELSE LET shape == Reshaped(response.shape)
         IN  IF ~ShapeAccepted(shape) THEN Raise("ValueError")
             ELSE GrpcLoop(response.cells, shape[2], 0, dimensions, model_name, <<>>)

\* ------------------------------------------------------------ parse_output
\* data is an Optional mapping (the batch's scratch-pad dictionary);
\* "data.get('image_dims') if data else None".
DimsOf(data) ==
    IF data.some /\ "image_dims" \in DOMAIN data.v THEN Some(data.v["image_dims"])
    ELSE None

AcceptAnyProtocol(protocol) == "http"
Dispatch(protocol) ==
    IF protocol = "grpc" THEN "grpc" ELSE IF protocol = "http" THEN "http" ELSE "invalid"

parse_output(response, protocol, data, model_name) ==
    LET dims == DimsOf(data)
        branch == Dispatch(protocol)
    IN  IF branch = "grpc"
        THEN _extract_content_from_ocr_grpc_response(response, dims, model_name)
        ELSE IF branch = "http"
        THEN _extract_content_from_ocr_http_response(response, dims)
        ELSE Raise("ValueError")

\* ------------------------------------------------------- decoded images
\* base64_to_numpy: a base64 string decodes to a pixel array of some height
\* and width; "pixels" names the content so that two images stay distinct.
base64_to_numpy(b64) ==
    IF b64 = "imgA" THEN [pixels |-> "imgA", height |-> 2, width |-> 4]
    ELSE IF b64 = "imgB" THEN [pixels |-> "imgB", height |-> 6, width |-> 3]
    ELSE [pixels |-> b64, height |-> 5, width |-> 5]

\* dict[key] = value
Put(d, k, v) == (k :> v) @@ d

\* ------------------------------------------- prepare_data_for_inference
\* A "base64_images" value is [islist, items]: whether it is a list, and the
\* items iterating over it yields.  The call returns its outcome and the
\* mapping as the call leaves it (the mapping is updated in place).
prepare_data_for_inference(data) ==
    IF "base64_images" \in DOMAIN data
    THEN IF ~data["base64_images"].islist
         THEN [res |-> Raise("ValueError"), data |-> data]
         ELSE LET items == data["base64_images"].items
                  out == Put(data, "image_arrays",
                             [i \in 1..Len(items) |-> base64_to_numpy(items[i])])
              IN  [res |-> Ok(out), data |-> out]
    ELSE IF "base64_image" \in DOMAIN data
    THEN LET out == Put(data, "image_arrays", <<base64_to_numpy(data["base64_image"])>>)
         IN  [res |-> Ok(out), data |-> out]
    ELSE [res |-> Raise("KeyError"), data |-> data]

\* ------------------------------------------------------------ format_input
Max(a, b) == IF a > b THEN a ELSE b

\* len(range(0, n, chunk_size)) for chunk_size >= 1
FloorChunks(n, chunk_size) == n \div chunk_size
NumChunks(n, chunk_size) == (n + chunk_size - 1) \div chunk_size

\* chunk_list(lst, chunk_size): [lst[i : i + chunk_size] for i in range(0, len(lst), chunk_size)]
chunk_list(lst, chunk_size) ==
    [c \in 1..NumChunks(Len(lst), chunk_size) |->
        SubSeq(lst, (c - 1) * chunk_size + 1, Min(c * chunk_size, Len(lst)))]

\* max(max(img.shape[:2]) for img in images), images non-empty
RECURSIVE MaxLength(_)
MaxLength(images) ==
    IF Len(images) = 1 THEN Max(images[1].height, images[1].width)
    ELSE Max(Max(images[1].height, images[1].width), MaxLength(Tail(images)))

\* preprocess_image_for_ocr(img, target_height, target_width, pad_how="bottom_right"):
\* the image is scaled to fit the canvas and padded at the bottom and right,
\* so detections need no shift.
preprocess_image_for_ocr(img, target_height, target_width) ==
    [original_height |-> img.height, original_width |-> img.width,
     new_height |-> <<target_height, 1>>, new_width |-> <<target_width, 1>>,
     pad_height |-> RatZero, pad_width |-> RatZero,
     scale_factor |-> IF target_height * img.width < target_width * img.height
                      THEN Rat(target_height, img.height)
                      ELSE Rat(target_width, img.width)]

\* preprocess_image_for_paddle(img): each image is preprocessed on its own;
\* its Geometry depends on that image alone.
preprocess_image_for_paddle(img) ==
    preprocess_image_for_ocr(img, Max(img.height, img.width), Max(img.height, img.width))

\* arr.astype(np.float32); np.expand_dims(arr, axis=0): one tensor row
TensorRow(img, geometry) ==
    [pixels |-> img.pixels, height |-> geometry.new_height[1], width |-> geometry.new_width[1]]

\* The geometry and the tensor row of every image ("for img in images").
OwnLongestSide(images, model_name) ==
    [i \in 1..Len(images) |-> preprocess_image_for_paddle(images[i])]
GrpcDims(images, model_name) ==
    [i \in 1..Len(images) |->
        IF model_name = "paddle" THEN preprocess_image_for_paddle(images[i])
        ELSE preprocess_image_for_ocr(images[i], MaxLength(images), MaxLength(images))]

\* [merge_level] * n
Repeat(x, n) == [i \in 1..n |-> x]

\* zip(a, b, c) of three lists of chunks stops at the shortest
GrpcBatch(proc_chunk, model_name, merge_level) ==
    IF model_name = "paddle" THEN [tensor |-> proc_chunk]
    ELSE [tensor |-> proc_chunk, merge_levels |-> <<Repeat(merge_level, Len(proc_chunk))>>]

HttpBatch(input_chunk, model_name, merge_level) ==
    IF model_name = "paddle" THEN [input |-> input_chunk]
    ELSE [input |-> input_chunk, merge_levels |-> Repeat(merge_level, Len(input_chunk))]

BatchData(orig_chunk, dims_chunk) == [image_arrays |-> orig_chunk, image_dims |-> dims_chunk]

\* The base64 strings the http branch reads, an Optional list.
Base64List(data) ==
    IF "base64_images" \in DOMAIN data THEN Some(data["base64_images"].items)
    ELSE IF "base64_image" \in DOMAIN data THEN Some(<<data["base64_image"]>>)
    ELSE None

\* "for b64, img in zip(base64_list, images)": one entry per pair
HttpInputList(base64_list, images) ==
    [i \in 1..Min(Len(base64_list), Len(images)) |->
        [type |-> "image_url", url |-> <<"data:image/png;base64,", base64_list[i]>>]]
HttpDims(base64_list, images) ==
    [i \in 1..Min(Len(base64_list), Len(images)) |->
        [new_width |-> <<images[i].width, 1>>, new_height |-> <<images[i].height, 1>>]]

\* The two lists a call returns, built from the three lists of chunks.
ZipBatches(payloads, images, dims, max_batch_size, protocol, model_name, merge_level) ==
    LET pc == chunk_list(payloads, max_batch_size)
        oc == chunk_list(images, max_batch_size)
        dc == chunk_list(dims, max_batch_size)
        n == Min3(Len(pc), Len(oc), Len(dc))
    IN  [batches |-> [c \in 1..n |->
                        IF protocol = "grpc" THEN GrpcBatch(pc[c], model_name, merge_level)
                        ELSE HttpBatch(pc[c], model_name, merge_level)],
         batch_data |-> [c \in 1..n |-> BatchData(oc[c], dc[c])]]

\* The call returns its outcome and the mapping as the call leaves it:
\* data["image_dims"] is replaced by a fresh list before the protocol is looked at.
format_input(data, protocol, max_batch_size, model_name, merge_level) ==
    IF "image_arrays" \notin DOMAIN data
    THEN [res |-> Raise("KeyError"), data |-> data]
    ELSE
    LET images == data["image_arrays"]
        cleared == Put(data, "image_dims", <<>>)
        branch == Dispatch(protocol)
    IN  IF branch = "grpc"
        THEN IF Len(images) = 0
             THEN [res |-> Raise("ValueError"), data |-> cleared]
             ELSE LET dims == GrpcDims(images, model_name)
                      processed == [i \in 1..Len(images) |-> TensorRow(images[i], dims[i])]
                  IN  [res |-> Ok(ZipBatches(processed, images, dims, max_batch_size,
                                             "grpc", model_name, merge_level)),
                       data |-> Put(data, "image_dims", dims)]
        ELSE IF branch = "http"
        THEN LET b64 == Base64List(data)
             IN  IF ~b64.some
                 THEN [res |-> Raise("KeyError"), data |-> cleared]
                 ELSE LET dims == HttpDims(b64.v, images)
                      IN  [res |-> Ok(ZipBatches(HttpInputList(b64.v, images), images, dims,
                                                 max_batch_size, "http", model_name,
                                                 merge_level)),
                           data |-> Put(data, "image_dims", dims)]
        ELSE [res |-> Raise("ValueError"), data |-> cleared]

\* ========================================================================
\* The state machines.  Each specification draws the inputs of one component
\* in its initial state and then applies the component's operations; the
\* variables of the other components stay idle.
\* ========================================================================
Idle == <<>>
RemapIdle == remapIn = Idle /\ remapOut = Idle
ParseIdle == parseIn = Idle /\ parseOut = Idle
ShapeIdle == shapeIn = Idle /\ shapeOut = Idle
FormatIdle == callerData = Idle /\ prepOut = Idle /\ fmtOut = Idle
ResolveIdle ==
    env = Idle /\ cache = Idle /\ callCount = 0 /\ at = "unused" /\ cur = Idle
StorageIdle ==
    stack = Idle /\ phase = "unused" /\ flying = Idle /\ first = Idle /\ outer = Idle

\* ------------------------------------------------- CoordinateRemapper
\* The entries a reply's three sequences are drawn from: two polygons with
\* their text and confidence, and an entry whose polygon is the sentinel.
PolygonA ==
    PyList(<<PyList(<<PyNum(<<1, 2>>), PyNum(<<2, 5>>)>>),
             PyList(<<PyNum(<<1, 1>>), PyNum(<<0, 1>>)>>)>>)
PolygonB ==
    PyList(<<PyList(<<PyNum(<<0, 1>>), PyNum(<<1, 4>>)>>),
             PyList(<<PyNum(<<3, 4>>), PyNum(<<1, 4>>)>>),
             PyList(<<PyNum(<<3, 4>>), PyNum(<<1, 1>>)>>)>>)
EntryPool ==
    {[box |-> PolygonA, text |-> PyStr(<<"a", "b">>), conf |-> PyNum(<<9, 10>>)],
     [box |-> PolygonB, text |-> PyStr(<<"c">>), conf |-> PyNum(<<1, 2>>)],
     [box |-> NanStr, text |-> PyStr(<<"x">>), conf |-> PyNum(<<1, 10>>)]}

GeometryLists == {None} \cup {Some(s) : s \in SeqsUpTo(Geometries, MaxImages)}

RemapInit ==
    /\ \E entries \in SeqsUpTo(EntryPool, MaxDetections), dims \in GeometryLists,
          idx \in 0..MaxImages :
          remapIn = [boxes |-> PyList([k \in 1..Len(entries) |-> entries[k].box]),
                     texts |-> PyList([k \in 1..Len(entries) |-> entries[k].text]),
                     confs |-> PyList([k \in 1..Len(entries) |-> entries[k].conf]),
                     dims |-> dims, idx |-> idx]
    /\ remapOut = [called |-> FALSE, scale |-> FALSE, shift |-> FALSE, res |-> NotCalled]
    /\ ParseIdle /\ ShapeIdle /\ FormatIdle /\ ResolveIdle /\ StorageIdle

\* A call of _postprocess_ocr_response with the given flags.
Postprocess(scale_coordinates, shift_coordinates) ==
    /\ remapOut' = [called |-> TRUE, scale |-> scale_coordinates,
                    shift |-> shift_coordinates,
                    res |-> _postprocess_ocr_response(
                               remapIn.boxes, remapIn.texts, remapIn.confs, remapIn.dims,
                               remapIn.idx, scale_coordinates, shift_coordinates)]
    /\ UNCHANGED <<remapIn, parseVars, shapeVars, formatVars, resolveVars, storageVars>>

RemapNext == \E sc \in BOOLEAN, sh \in BOOLEAN : Postprocess(sc, sh)

SpecRemap == RemapInit /\ [][RemapNext]_vars

\* ---- what the claims about the remapper speak of
\* The positions of the input polygons that are not the sentinel, in order.
KeptIndices(boxes) ==
    SelectSeq([i \in 1..Len(boxes) |-> i], LAMBDA i : boxes[i] # NanStr)

\* The geometry the call is about: the one at the index, the first when the
\* index is out of range.
CalledGeometry ==
    IF remapIn.idx < Len(remapIn.dims.v) THEN remapIn.dims.v[remapIn.idx + 1]
    ELSE remapIn.dims.v[1]

\* out = (c * extent - pad) / s, stated on the integers:
\* out * s = c * extent - pad, cross-multiplied.
MapsTo(c, out, extent, pad, s) ==
    out[1] * s[1] * (c[2] * extent[2] * pad[2])
        = (c[1] * extent[1] * pad[2] - pad[1] * c[2] * extent[2]) * (out[2] * s[2])

RemapCallOk == remapOut.called /\ remapOut.res.err = "none"

\* C4: every kept polygon keeps its points in order, and the point (x, y) is
\* mapped to ((x*max_w - pad_w)/s, (y*max_h - pad_h)/s), where max_w, max_h, s
\* are the geometry's when scale_coordinates is set (else 1) and pad_w, pad_h
\* are the geometry's when shift_coordinates is set (else 0); with both flags
\* unset the point is returned as it came.
C4_RemapFormula ==
    RemapCallOk =>
        LET bs == remapIn.boxes.items
            keep == KeptIndices(bs)
            out == remapOut.res.val.bboxes
            g == CalledGeometry
            mw == IF remapOut.scale THEN g.new_width ELSE <<1, 1>>
            mh == IF remapOut.scale THEN g.new_height ELSE <<1, 1>>
            s == IF remapOut.scale /\ "scale_factor" \in DOMAIN g
                 THEN g.scale_factor ELSE <<1, 1>>
            pw == IF remapOut.shift /\ "pad_width" \in DOMAIN g
                  THEN g.pad_width ELSE <<0, 1>>
            ph == IF remapOut.shift /\ "pad_height" \in DOMAIN g
                  THEN g.pad_height ELSE <<0, 1>>
        IN  /\ Len(out) = Len(keep)
            /\ \A k \in 1..Len(out) :
                  /\ Len(out[k]) = Len(bs[keep[k]].items)
                  /\ \A q \in 1..Len(out[k]) :
                        LET pin == bs[keep[k]].items[q].items
                        IN  /\ MapsTo(pin[1].num, out[k][q][1], mw, pw, s)
                            /\ MapsTo(pin[2].num, out[k][q][2], mh, ph, s)
                            /\ out[k][q][1][2] > 0 /\ out[k][q][2][2] > 0
                            /\ (~remapOut.scale /\ ~remapOut.shift)
                                  => out[k][q] = <<pin[1].num, pin[2].num>>

\* The spec's worked example: with the padded geometry and both flags set the
\* point (0.5, 0.4) comes back as (22.5, 10.0).
C4_Witness ==
    /\ RemapCallOk /\ remapOut.scale /\ remapOut.shift
    /\ CalledGeometry = GeomPadded
    /\ Len(remapOut.res.val.bboxes) > 0
    /\ remapIn.boxes.items[KeptIndices(remapIn.boxes.items)[1]] = PolygonA
    /\ remapOut.res.val.bboxes[1][1] = <<(<<45, 2>>), (<<10, 1>>)>>

\* C5: with a geometry list given the call succeeds, and its output triples
\* are exactly the input triples whose polygon is not the sentinel, in their
\* original order: the k-th text and confidence are those of the k-th kept
\* polygon.
C5_NanDropped ==
    (remapOut.called /\ remapIn.dims.some /\ Len(remapIn.dims.v) > 0) =>
        /\ remapOut.res.err = "none"
        /\ LET keep == KeptIndices(remapIn.boxes.items)
               out == remapOut.res.val
           IN  /\ Len(out.bboxes) = Len(keep)
               /\ out.texts = [k \in 1..Len(keep) |-> remapIn.texts.items[keep[k]]]
               /\ out.confs = [k \in 1..Len(keep) |-> remapIn.confs.items[keep[k]]]
               /\ \A k \in 1..Len(keep) :
                     /\ Len(out.bboxes[k]) = Len(remapIn.boxes.items[keep[k]].items)
                     /\ (~remapOut.scale /\ ~remapOut.shift) =>
                           out.bboxes[k] =
                              [q \in 1..Len(out.bboxes[k]) |->
                                 <<remapIn.boxes.items[keep[k]].items[q].items[1].num,
                                   remapIn.boxes.items[keep[k]].items[q].items[2].num>>]

\* A sentinel in first place followed by a polygon that is kept.
C5_Witness ==
    /\ RemapCallOk
    /\ Len(remapIn.boxes.items) = 2
    /\ remapIn.boxes.items[1] = NanStr
    /\ remapIn.boxes.items[2] = PolygonB
    /\ remapOut.res.val.texts = <<PyStr(<<"c">>)>>
    /\ Len(remapOut.res.val.bboxes) = 1

Letters == <<"a", "b", "c", "d", "e", "f">>
Detection(i, j) ==
    [box |-> <<(<<Rat(j, 5), Rat(i, 5)>>), (<<Rat(j + 1, 5), Rat(i + 1, 5)>>)>>,
     text |-> <<Letters[i], Letters[j]>>,
     conf |-> Rat(10 - i - j, 10)]
DetectionsOf(counts) ==
    [i \in 1..Len(counts) |-> [j \in 1..counts[i] |-> Detection(i, j)]]
DetectionCounts == UNION {[1..n -> 0..MaxDetections] : n \in 1..MaxImages}

\* The HTTP wire contract: {"data": [{"text_detections": [{"text_prediction":
\* {"text", "confidence"}, "bounding_box": {"points": [{"x", "y"}, ...]}}]}]}
HttpReply(dets) ==
    [data |-> [i \in 1..Len(dets) |->
        [text_detections |-> [j \in 1..Len(dets[i]) |->
            [text_prediction |-> [text |-> PyStr(dets[i][j].text),
                                  confidence |-> PyNum(dets[i][j].conf)],
             bounding_box |-> [points |-> [q \in 1..Len(dets[i][j].box) |->
                                  [x |-> PyNum(dets[i][j].box[q][1]),
                                   y |-> PyNum(dets[i][j].box[q][2])]]]]]]]]

\* The gRPC wire contract: row 0 holds, per image, the JSON array of its
\* polygons (each an array of [x, y]), row 1 the JSON array of its texts,
\* row 2 the JSON array of its confidences.
BoxesCell(d) ==
    Bytes(JArray([j \in 1..Len(d) |->
        JArray([q \in 1..Len(d[j].box) |->
            JArray(<<JNumber(d[j].box[q][1]), JNumber(d[j].box[q][2])>>)])]))
TextsCell(d) == Bytes(JArray([j \in 1..Len(d) |-> JString(d[j].text)]))
ConfsCell(d) == Bytes(JArray([j \in 1..Len(d) |-> JNumber(d[j].conf)]))
GrpcCells(dets) ==
    [i \in 1..Len(dets) |-> BoxesCell(dets[i])]
        \o [i \in 1..Len(dets) |-> TextsCell(dets[i])]
        \o [i \in 1..Len(dets) |-> ConfsCell(dets[i])]
GrpcReply(dets) == [isarray |-> TRUE, shape |-> <<3, Len(dets)>>, cells |-> GrpcCells(dets)]

\* One level of nesting around a cell's document ("some gRPC responses nest
\* single-item lists").
Nested(cell) == Bytes(JArray(<<cell.doc>>))
GrpcReplyNested(dets) ==
    [isarray |-> TRUE, shape |-> <<3, Len(dets)>>,
     cells |-> [k \in 1..3 * Len(dets) |-> Nested(GrpcCells(dets)[k])]]

Encode(encoding, dets) ==
    IF encoding = "grpc" THEN GrpcReply(dets)
    ELSE IF encoding = "grpc nested" THEN GrpcReplyNested(dets)
    ELSE HttpReply(dets)

Protocols == {"grpc", "http"}
AllProtocols == {"grpc", "http", "ftp", ""}
ModelNames == {"paddle", "scene_text"}

\* The batch's scratch-pad dictionary handed to parse_output: None, or a
\* mapping with the batch's "image_dims".
BatchDataOf(dims) == IF dims.some THEN Some([image_dims |-> dims.v]) ELSE None

ParseInit ==
    /\ \E counts \in DetectionCounts, dims \in GeometryLists, model \in ModelNames :
          parseIn = [dets |-> DetectionsOf(counts), data |-> BatchDataOf(dims),
                     model |-> model]
    /\ parseOut = [p \in AllProtocols |-> NotCalled]
    /\ RemapIdle /\ ShapeIdle /\ FormatIdle /\ ResolveIdle /\ StorageIdle

\* A call of parse_output with the given protocol on the reply in the given
\* encoding.
ParseOutputCall(protocol, encoding) ==
    /\ parseOut' = [parseOut EXCEPT ![protocol] =
                       parse_output(Encode(encoding, parseIn.dets), protocol,
                                    parseIn.data, parseIn.model)]
    /\ UNCHANGED <<parseIn, remapVars, shapeVars, formatVars, resolveVars, storageVars>>

ParseNext ==
    \/ \E p \in Protocols : ParseOutputCall(p, p)
    \/ ParseOutputCall("grpc", "grpc nested")

SpecParse == ParseInit /\ [][ParseNext]_vars

\* ---- what the claims about the parser speak of
Called(p) == parseOut[p].err # "not called"
\* The number of images of the batch (its geometry list), 0 when none is given.
BatchSize == IF parseIn.data.some THEN Len(parseIn.data.v.image_dims) ELSE 0
ReplySize == Len(parseIn.dets)

\* C1 (the claim as stated): for a reply with one element per image of the
\* batch, parse_output over http and over grpc both return, and return the
\* same result list.
C1_HttpGrpcIdentical ==
    (Called("http") /\ Called("grpc") /\ BatchSize = ReplySize) =>
        /\ parseOut["http"].err = "none"
        /\ parseOut["grpc"].err = "none"
        /\ parseOut["http"].val = parseOut["grpc"].val

\* The three sequences of the i-th reply element, as Python lists.
ElementLists(i) ==
    LET d == parseIn.dets[i]
    IN  [boxes |-> PyList([j \in 1..Len(d) |->
                     PyList([q \in 1..Len(d[j].box) |->
                        PyList(<<PyNum(d[j].box[q][1]), PyNum(d[j].box[q][2])>>)])]),
         texts |-> PyList([j \in 1..Len(d) |-> PyStr(d[j].text)]),
         confs |-> PyList([j \in 1..Len(d) |-> PyNum(d[j].conf)])]

\* The i-th reply element remapped with the i-th geometry alone.
ExpectedEntry(i, scale) ==
    _postprocess_ocr_response(ElementLists(i).boxes, ElementLists(i).texts,
                              ElementLists(i).confs,
                              Some(<<parseIn.data.v.image_dims[i]>>), 0, scale, TRUE)

\* C6 (the claim as stated): for a batch of B images and a reply with one
\* element per image, parse_output returns B entries, the i-th computed from
\* the i-th reply element with the i-th geometry, for both protocols.
C6_OneEntryPerImage ==
    \A p \in Protocols :
        (Called(p) /\ BatchSize >= 1 /\ BatchSize = ReplySize) =>
            /\ parseOut[p].err = "none"
            /\ Len(parseOut[p].val) = BatchSize
            /\ \A i \in 1..BatchSize :
                  LET e == ExpectedEntry(i, p = "http" \/ parseIn.model = "paddle")
                  IN  e.err = "none" /\ parseOut[p].val[i] = e.val

\* ------------------------------------------- the gRPC parser and shapes

\* Shapes other than (3,) and (3, 1) a reply may arrive with.
OtherShapes ==
    {<<>>, <<1>>, <<2>>, <<4>>, <<1, 3>>, <<2, 1>>, <<3, 1, 1>>, <<1, 3, 1>>}
        \cup {<<3, n>> : n \in {0} \cup 2..MaxImages}

\* An array of the given shape filled with the three cells: a two-dimensional
\* array row by row, any other in turn.
FillCells(cells, shape) ==
    [k \in 1..NumCells(shape) |->
        cells[IF Len(shape) = 2 /\ shape[2] > 0
              THEN (((k - 1) \div shape[2]) % 3) + 1
              ELSE ((k - 1) % 3) + 1]]

ShapeInit ==
    /\ \E count \in 0..MaxDetections, nested \in BOOLEAN,
          dims \in {None} \cup {Some(<<g>>) : g \in Geometries}, model \in ModelNames :
          LET d == DetectionsOf(<<count>>)[1]
              flat == <<BoxesCell(d), TextsCell(d), ConfsCell(d)>>
          IN  shapeIn = [cells |-> IF nested THEN [r \in 1..3 |-> Nested(flat[r])]
                                   ELSE flat,
                         dims |-> dims, model |-> model]
    /\ shapeOut = [flat |-> NotCalled, column |-> NotCalled,
                   other |-> [isarray |-> TRUE, shape |-> <<>>, res |-> NotCalled]]
    /\ RemapIdle /\ ParseIdle /\ FormatIdle /\ ResolveIdle /\ StorageIdle

\* The parser on the three cells as a flat array of shape (3,).
ParseFlat ==
    /\ shapeOut' = [shapeOut EXCEPT !.flat =
           _extract_content_from_ocr_grpc_response(
               [isarray |-> TRUE, shape |-> <<3>>, cells |-> shapeIn.cells],
               shapeIn.dims, shapeIn.model)]
    /\ UNCHANGED <<shapeIn, remapVars, parseVars, formatVars, resolveVars, storageVars>>

\* The parser on the same cells as an array of shape (3, 1).
ParseColumn ==
    /\ shapeOut' = [shapeOut EXCEPT !.column =
           _extract_content_from_ocr_grpc_response(
               [isarray |-> TRUE, shape |-> <<3, 1>>, cells |-> shapeIn.cells],
               shapeIn.dims, shapeIn.model)]
    /\ UNCHANGED <<shapeIn, remapVars, parseVars, formatVars, resolveVars, storageVars>>

\* The parser on a reply of another shape, or on a reply that is no array.
ParseOther(isarray, shape) ==
    /\ shapeOut' = [shapeOut EXCEPT !.other =
           [isarray |-> isarray, shape |-> shape,
            res |-> _extract_content_from_ocr_grpc_response(
                       [isarray |-> isarray, shape |-> shape,
                        cells |-> FillCells(shapeIn.cells, shape)],
                       shapeIn.dims, shapeIn.model)]]
    /\ UNCHANGED <<shapeIn, remapVars, parseVars, formatVars, resolveVars, storageVars>>

ShapeNext ==
    \/ ParseFlat
    \/ ParseColumn
    \/ \E shape \in OtherShapes : ParseOther(TRUE, shape)
    \/ ParseOther(FALSE, <<3, 1>>)

SpecShape == ShapeInit /\ [][ShapeNext]_vars

\* C10: the parser's outcome for the cells as a flat array of shape (3,) is
\* its outcome for the same cells as an array of shape (3, 1), and a reply
\* that is no array of shape (3,) or (3, n) is rejected with a ValueError.
C10_FlatAsColumn ==
    /\ (shapeOut.flat.err # "not called" /\ shapeOut.column.err # "not called")
          => shapeOut.flat = shapeOut.column
    /\ (/\ shapeOut.other.res.err # "not called"
        /\ ~(/\ shapeOut.other.isarray
             /\ Len(shapeOut.other.shape) = 2
             /\ shapeOut.other.shape[1] = 3))
          => shapeOut.other.res.err = "ValueError"

\* Both calls made and a detection parsed from the flat reply; a reply of
\* shape (1, 3) rejected.
C10_Witness ==
    /\ shapeOut.flat.err = "none"
    /\ shapeOut.column.err = "none"
    /\ Len(shapeOut.flat.val) = 1
    /\ Len(shapeOut.flat.val[1].texts) = 2
    /\ shapeOut.other.shape = <<1, 3>>
    /\ shapeOut.other.res.err = "ValueError"

\* ------------------------------------- sequences of different lengths
\* The backend's json.dumps of a value: the document json.loads reads back.
RECURSIVE JsonOf(_)
JsonOf(v) ==
    IF v.t = "list" THEN JArray([i \in 1..Len(v.items) |-> JsonOf(v.items[i])])
    ELSE IF v.t = "str" THEN JString(v.chars)
    ELSE JNumber(v.num)

\* The k-th text and the k-th confidence of a reply.
TextAt(k) == IF k % 2 = 1 THEN PyStr(<<"a", "b">>) ELSE PyStr(<<"c">>)
ConfAt(k) == PyNum(Rat(10 - k, 10))

\* Polygons, texts and confidences of one image, each list of its own length,
\* handed to the remapper as they are and to the parser as the three cells of
\* a one-image gRPC reply (with or without one more level of nesting).
RaggedInit ==
    /\ \E boxes \in SeqsUpTo({PolygonA, NanStr}, MaxDetections),
          nt \in 0..MaxDetections, nc \in 0..MaxDetections,
          nested \in BOOLEAN, g \in Geometries, model \in ModelNames :
          LET bs == PyList(boxes)
              ts == PyList([k \in 1..nt |-> TextAt(k)])
              cs == PyList([k \in 1..nc |-> ConfAt(k)])
              flat == <<Bytes(JsonOf(bs)), Bytes(JsonOf(ts)), Bytes(JsonOf(cs))>>
          IN  /\ remapIn = [boxes |-> bs, texts |-> ts, confs |-> cs,
                            dims |-> Some(<<g>>), idx |-> 0]
              /\ shapeIn = [cells |-> IF nested THEN [r \in 1..3 |-> Nested(flat[r])]
                                      ELSE flat,
                            dims |-> Some(<<g>>), model |-> model]
    /\ remapOut = [called |-> FALSE, scale |-> FALSE, shift |-> FALSE, res |-> NotCalled]
    /\ shapeOut = [flat |-> NotCalled, column |-> NotCalled,
                   other |-> [isarray |-> TRUE, shape |-> <<>>, res |-> NotCalled]]
    /\ ParseIdle /\ FormatIdle /\ ResolveIdle /\ StorageIdle

\* parse_output over grpc on the three cells as a (3, 1) reply.
ParseRagged ==
    /\ shapeOut' = [shapeOut EXCEPT !.column =
           parse_output([isarray |-> TRUE, shape |-> <<3, 1>>, cells |-> shapeIn.cells],
                        "grpc", BatchDataOf(shapeIn.dims), shapeIn.model)]
    /\ UNCHANGED <<shapeIn, remapVars, parseVars, formatVars, resolveVars, storageVars>>

RaggedNext ==
    \/ \E sc \in BOOLEAN, sh \in BOOLEAN : Postprocess(sc, sh)
    \/ ParseRagged

SpecRagged == RaggedInit /\ [][RaggedNext]_vars

\* The number of polygons that are not the sentinel among the first n, n the
\* length of the shortest of the three input sequences.
KeptInPrefix ==
    LET n == Min3(Len(remapIn.boxes.items), Len(remapIn.texts.items),
                  Len(remapIn.confs.items))
    IN  Cardinality({k \in 1..n : remapIn.boxes.items[k] # NanStr})

SameLengths(r, n) == Len(r.bboxes) = n /\ Len(r.texts) = n /\ Len(r.confs) = n

\* C15 (the claim as stated): every result _postprocess_ocr_response or
\* parse_output returns has as many polygons as texts as confidences, namely
\* the length of the shortest input sequence less the sentinels in that
\* prefix.
C15_EqualLengths ==
    /\ RemapCallOk => SameLengths(remapOut.res.val, KeptInPrefix)
    /\ shapeOut.column.err = "none" =>
          \A i \in 1..Len(shapeOut.column.val) :
              SameLengths(shapeOut.column.val[i], KeptInPrefix)

\* ------------------------------- BatchPreprocessor and ProtocolFormatter
Base64Strings == {"imgA", "imgB"}

\* The "base64_images" values a caller passes: lists of base64 strings, and a
\* value that is no list (a single string, whose items are its characters).
Base64ImagesValues ==
    {[islist |-> TRUE, items |-> l] : l \in SeqsUpTo(Base64Strings, MaxImages)}
        \cup {[islist |-> FALSE, items |-> <<"i", "m", "g">>]}

Decoded(l) == [i \in 1..Len(l) |-> base64_to_numpy(l[i])]

\* The "image_arrays" a caller's mapping may already hold: the decoded
\* base64 strings of the mapping, those and one more image, or all but the
\* last of them.
ArraysFor(l, how) ==
    IF how = "matching" THEN Decoded(l)
    ELSE IF how = "extra" THEN Append(Decoded(l), base64_to_numpy("imgC"))
    ELSE IF Len(l) = 0 THEN <<>>
    ELSE SubSeq(Decoded(l), 1, Len(l) - 1)

Empty == <<>>
\* The caller's mapping: with or without "base64_images" (of the given
\* value), with or without "base64_image", and without "image_arrays"
\* (how = "absent") or with the arrays ArraysFor gives.
Mapping(hasList, list, hasSingle, how) ==
    LET m1 == IF hasList THEN Put(Empty, "base64_images", list) ELSE Empty
        m2 == IF hasSingle THEN Put(m1, "base64_image", "imgC") ELSE m1
        b64 == Base64List(m2)
    IN  IF how = "absent" THEN m2
        ELSE Put(m2, "image_arrays", ArraysFor(IF b64.some THEN b64.v ELSE <<>>, how))

CallerMappings ==
    {Mapping(hasList, list, hasSingle, how) :
        hasList \in BOOLEAN, list \in Base64ImagesValues, hasSingle \in BOOLEAN,
        how \in {"absent", "matching", "extra", "fewer"}}

NoPrepare == [called |-> FALSE, before |-> Empty, res |-> NotCalled]
NoFormat ==
    [called |-> FALSE, protocol |-> "", max_batch_size |-> 1, model_name |-> "",
     images |-> None, b64 |-> None, res |-> NotCalled]

FormatInit ==
    /\ callerData \in CallerMappings
    /\ prepOut = NoPrepare
    /\ fmtOut = NoFormat
    /\ RemapIdle /\ ParseIdle /\ ShapeIdle /\ ResolveIdle /\ StorageIdle

\* A call of prepare_data_for_inference on the caller's mapping.
PrepareData ==
    \E r \in {prepare_data_for_inference(callerData)} :
        /\ prepOut' = [called |-> TRUE, before |-> callerData, res |-> r.res]
        /\ callerData' = r.data
        /\ UNCHANGED <<fmtOut, remapVars, parseVars, shapeVars, resolveVars, storageVars>>

\* A call of format_input on the caller's mapping (merge_level left at its
\* default).
FormatInputCall(protocol, max_batch_size, model_name) ==
    \E r \in {format_input(callerData, protocol, max_batch_size, model_name, "paragraph")} :
        /\ fmtOut' = [called |-> TRUE, protocol |-> protocol,
                      max_batch_size |-> max_batch_size, model_name |-> model_name,
                      images |-> IF "image_arrays" \in DOMAIN callerData
                                 THEN Some(callerData["image_arrays"]) ELSE None,
                      b64 |-> Base64List(callerData),
                      res |-> r.res]
        /\ callerData' = r.data
        /\ UNCHANGED <<prepOut, remapVars, parseVars, shapeVars, resolveVars, storageVars>>

FormatNext ==
    \/ PrepareData
    \/ \E p \in AllProtocols, mbs \in 1..MaxBatchSize, model \in ModelNames :
          FormatInputCall(p, mbs, model)

SpecFormat == FormatInit /\ [][FormatNext]_vars

\* ---- what the claims about the formatter speak of
RECURSIVE ConcatUpTo(_, _)
\* The image lists of the first n batches, joined in batch order.
ConcatUpTo(batch_data, n) ==
    IF n = 0 THEN <<>>
    ELSE ConcatUpTo(batch_data, n - 1) \o batch_data[n].image_arrays

\* The call got N >= 1 images and, over http, one base64 string per image.
InputOfImages ==
    /\ fmtOut.called /\ fmtOut.protocol \in Protocols
    /\ fmtOut.images.some /\ Len(fmtOut.images.v) >= 1
    /\ fmtOut.protocol = "http" =>
          (fmtOut.b64.some /\ Len(fmtOut.b64.v) = Len(fmtOut.images.v))

PayloadSize(batch) ==
    IF "tensor" \in DOMAIN batch THEN Len(batch.tensor) ELSE Len(batch.input)

\* C3 (the claim as stated): in every batch a call returns, the request
\* holds as many elements as the batch has geometries and images, at most
\* max_batch_size, whatever the lengths of the base64 list and the image list.
C3_BatchAligned ==
    (fmtOut.called /\ fmtOut.res.err = "none") =>
        \A c \in 1..Len(fmtOut.res.val.batches) :
            LET n == PayloadSize(fmtOut.res.val.batches[c])
            IN  /\ n <= fmtOut.max_batch_size
                /\ n = Len(fmtOut.res.val.batch_data[c].image_dims)
                /\ n = Len(fmtOut.res.val.batch_data[c].image_arrays)

\* C11 (the claim as stated): prepare_data_for_inference ends in KeyError
\* with neither input key, in ValueError with a "base64_images" value that is
\* no list, and returns, with one decoded image per input string in input
\* order, only when exactly one of the two keys is present.
C11_ExactlyOneKey ==
    prepOut.called =>
        LET before == prepOut.before
            hasList == "base64_images" \in DOMAIN before
            hasSingle == "base64_image" \in DOMAIN before
        IN  /\ (~hasList /\ ~hasSingle) => prepOut.res.err = "KeyError"
            /\ (hasList /\ ~before["base64_images"].islist)
                  => prepOut.res.err = "ValueError"
            /\ prepOut.res.err = "none" =>
                  /\ hasList # hasSingle
                  /\ prepOut.res.val["image_arrays"] =
                        IF hasList THEN Decoded(before["base64_images"].items)
                        ELSE Decoded(<<before["base64_image"]>>)

\* The largest side of any image of the input list.
LongestSide(images) ==
    LET sides == {images[i].height : i \in 1..Len(images)}
                    \cup {images[i].width : i \in 1..Len(images)}
    IN  CHOOSE t \in sides : \A u \in sides : u <= t

\* The call was made for a generic model on N >= 1 images and returned.
GenericCall(protocol) ==
    /\ fmtOut.called /\ fmtOut.protocol = protocol
    /\ fmtOut.model_name # "paddle"
    /\ fmtOut.images.some /\ Len(fmtOut.images.v) >= 1
    /\ fmtOut.res.err = "none"

\* Every geometry and every tensor row of every batch is the square of side t.
AllSquare(t) ==
    \A c \in 1..Len(fmtOut.res.val.batch_data) :
        \A k \in 1..Len(fmtOut.res.val.batch_data[c].image_dims) :
            LET g == fmtOut.res.val.batch_data[c].image_dims[k]
            IN  /\ g.new_height = <<t, 1>>
                /\ g.new_width = <<t, 1>>

\* C13 (the claim as stated): for a generic model, whatever the protocol,
\* every image of the call is fitted into the one square of side T, the
\* largest side of any image of the input.
C13_OneTargetAnyProtocol ==
    \A p \in Protocols : GenericCall(p) => AllSquare(LongestSide(fmtOut.images.v))

\* C13 (amended): over grpc a call for a generic model returns, every image
\* is fitted into the one square of side T, whichever batch it lands in, and
\* every tensor row has that height and width; over http no image is
\* resized and the k-th geometry of a batch holds the width and height of the
\* k-th image of that batch.
C13_OneTargetOverGrpc ==
    /\ (fmtOut.called /\ fmtOut.protocol = "grpc" /\ fmtOut.model_name # "paddle"
          /\ fmtOut.images.some /\ Len(fmtOut.images.v) >= 1)
          => /\ fmtOut.res.err = "none"
             /\ AllSquare(LongestSide(fmtOut.images.v))
             /\ \A c \in 1..Len(fmtOut.res.val.batches) :
                   /\ Len(fmtOut.res.val.batch_data[c].image_dims)
                         = Len(fmtOut.res.val.batches[c].tensor)
                   /\ \A k \in 1..Len(fmtOut.res.val.batches[c].tensor) :
                         LET row == fmtOut.res.val.batches[c].tensor[k]
                         IN  /\ row.height = LongestSide(fmtOut.images.v)
                             /\ row.width = LongestSide(fmtOut.images.v)
    /\ GenericCall("http")
          => \A c \in 1..Len(fmtOut.res.val.batch_data) :
                LET bd == fmtOut.res.val.batch_data[c]
                IN  \A k \in 1..Len(bd.image_dims) :
                       /\ k <= Len(bd.image_arrays)
                       /\ bd.image_dims[k] =
                             [new_width |-> <<bd.image_arrays[k].width, 1>>,
                              new_height |-> <<bd.image_arrays[k].height, 1>>]

\* A grpc call for the generic model on the 2x4 and the 6x3 image with
\* max_batch_size 1: two batches, both fitted into the square of side 6.
C13_Witness ==
    /\ GenericCall("grpc")
    /\ fmtOut.max_batch_size = 1
    /\ Len(fmtOut.images.v) = 2
    /\ fmtOut.images.v[1].height = 2 /\ fmtOut.images.v[2].height = 6
    /\ Len(fmtOut.res.val.batches) = 2
    /\ fmtOut.res.val.batch_data[1].image_dims[1].new_height = <<6, 1>>
    /\ fmtOut.res.val.batches[1].tensor[1].width = 6

\* C14 (the claim as stated): a format_input call, also one that ends in an
\* error, leaves the caller's mapping as it was: no key added, replaced or
\* emptied.
C14_CallerMappingUnchanged ==
    [][fmtOut' # fmtOut => callerData' = callerData]_vars

\* --------------------------------------- format and parse, any protocol
\* The formatter on mappings that already hold "image_arrays", and the parser
\* on a one-image reply, each called with any protocol string.
ProtocolInit ==
    /\ callerData \in {Mapping(TRUE, [islist |-> TRUE, items |-> l], FALSE, "matching") :
                          l \in SeqsUpTo(Base64Strings, MaxImages)}
    /\ prepOut = NoPrepare
    /\ fmtOut = NoFormat
    /\ \E count \in 0..MaxDetections, model \in ModelNames :
          parseIn = [dets |-> DetectionsOf(<<count>>),
                     data |-> BatchDataOf(Some(<<GeomPlain>>)), model |-> model]
    /\ parseOut = [p \in AllProtocols |-> NotCalled]
    /\ RemapIdle /\ ShapeIdle /\ ResolveIdle /\ StorageIdle

ProtocolNext ==
    \/ \E p \in AllProtocols, model \in ModelNames :
          FormatInputCall(p, MaxBatchSize, model)
    \/ \E p \in AllProtocols :
          ParseOutputCall(p, IF p \in Protocols THEN p ELSE "http")

SpecProtocol == ProtocolInit /\ [][ProtocolNext]_vars

\* C9: with a protocol string other than "grpc" and "http", format_input on
\* a mapping that holds "image_arrays" raises ValueError (and so returns no
\* batches), and parse_output raises ValueError (and so returns no results).
C9_InvalidProtocol ==
    /\ (fmtOut.called /\ fmtOut.protocol \notin Protocols /\ fmtOut.images.some)
          => fmtOut.res.err = "ValueError"
    /\ \A p \in AllProtocols \ Protocols :
          Called(p) => parseOut[p].err = "ValueError"

\* Both calls made with "ftp", on two images and on a reply with detections.
C9_Witness ==
    /\ fmtOut.called /\ fmtOut.protocol = "ftp"
    /\ fmtOut.images.some /\ Len(fmtOut.images.v) = 2
    /\ fmtOut.res.err = "ValueError"
    /\ Len(parseIn.dets[1]) = 2
    /\ parseOut["ftp"].err = "ValueError"
    /\ parseOut["http"].err = "none"

-----------------------------------------------------------------------------
\* ModelNameResolver: get_ocr_model_name under its two decorators.
\*
\* Time is counted in whole seconds.

\* max_time of backoff.on_predicate, in seconds.
max_time == 30
\* max_calls of multiprocessing_cache.
max_calls == 100
\* The seconds one registry query may take.
QuerySeconds == {1, 2}
\* What a registry query may do: raise, list no model, list a model.
QueryOutcomes == {"error", "empty", "listed"}
\* The first model name the registry lists.
RegistryModel == "scene_text"
\* The values OCR_MODEL_NAME is set to.
EnvValues == {"override"}
\* The endpoint arguments: "" stands for a missing (falsy) endpoint.
Endpoints == {"", "triton:8001"}
\* The default_model_name arguments; "" is a falsy default.
DefaultNames == {"paddle", ""}

EnvUnset == [set |-> FALSE, v |-> ""]
EnvSet(v) == [set |-> TRUE, v |-> v]
CacheMiss == [hit |-> FALSE, v |-> ""]
CacheHit(v) == [hit |-> TRUE, v |-> v]

\* backoff.expo: the wait before the k-th retry is 2^(k-1) seconds.
RECURSIVE expo(_)
expo(k) == IF k <= 1 THEN 1 ELSE 2 * expo(k - 1)

\* backoff's default predicate: retry while the returned value is falsy.
Falsy(ret) == ret = ""

\* backoff's full jitter and cap: a wait of up to value seconds, never longer
\* than what is left of max_time.  Waits are rounded up to whole seconds, so
\* every wait moves the clock.
NextWaits(tries, elapsed) ==
    {Min(seconds, max_time - elapsed) : seconds \in 1..Min(expo(tries), max_time)}

\* What the query step of the function body yields: the first listed name,
\* or default_model_name when the query raised or listed nothing.
QueryResult(outcome, default_model_name) ==
    IF outcome = "listed" THEN RegistryModel ELSE default_model_name

FreshCall(endpoint, default_model_name) ==
    [endpoint |-> endpoint, default |-> default_model_name,
     envAtCall |-> EnvUnset, fromCache |-> FALSE, ret |-> "",
     tries |-> 0, attempts |-> 0, allFailed |-> TRUE,
     elapsed |-> 0, elapsedAtTry |-> 0]

\* All calls of one run carry the same two arguments, so the cache holds at
\* most the one entry of these arguments.
ResolveInit ==
    /\ env = EnvUnset
    /\ cache = CacheMiss
    /\ callCount = 0
    /\ at = "idle"
    /\ \E e \in Endpoints, d \in DefaultNames : cur = FreshCall(e, d)
    /\ RemapIdle /\ ParseIdle /\ ShapeIdle /\ FormatIdle /\ StorageIdle

otherVars == <<remapVars, parseVars, shapeVars, formatVars, storageVars>>

\* os.environ["OCR_MODEL_NAME"] = v, between calls.
SetEnv(v) ==
    /\ at = "idle"
    /\ env # EnvSet(v)
    /\ env' = EnvSet(v)
    /\ UNCHANGED <<cache, callCount, at, cur, otherVars>>

\* del os.environ["OCR_MODEL_NAME"], between calls.
UnsetEnv ==
    /\ at = "idle"
    /\ env.set
    /\ env' = EnvUnset
    /\ UNCHANGED <<cache, callCount, at, cur, otherVars>>

\* multiprocessing_cache, on entry: count the call, empty the cache once the
\* count passes max_calls, and answer from the cache when it holds a result.
Call ==
    /\ at = "idle"
    /\ callCount < MaxResolveCalls
    /\ LET count == callCount + 1
           kept == IF count > max_calls THEN CacheMiss ELSE cache
           call == [FreshCall(cur.endpoint, cur.default) EXCEPT !.envAtCall = env]
       IN  /\ callCount' = IF count > max_calls THEN 0 ELSE count
           /\ IF kept.hit
                 THEN /\ cur' = [call EXCEPT !.fromCache = TRUE, !.ret = kept.v]
                      /\ at' = "done"
                 ELSE /\ cur' = call
                      /\ at' = "try"
           /\ cache' = kept
    /\ UNCHANGED <<env, otherVars>>

\* backoff's loop head and the function body up to the query: the override
\* first, then the default when there is no endpoint.
Try ==
    /\ at = "try"
    /\ LET trial == [cur EXCEPT !.tries = @ + 1, !.elapsedAtTry = cur.elapsed]
       IN  IF env.set
              THEN cur' = [trial EXCEPT !.ret = env.v] /\ at' = "decide"
              ELSE IF cur.endpoint = ""
                      THEN cur' = [trial EXCEPT !.ret = cur.default] /\ at' = "decide"
                      ELSE cur' = trial /\ at' = "query"
    /\ UNCHANGED <<env, cache, callCount, otherVars>>

\* The registry query inside try/except: any exception is caught and the
\* default is returned in its place.
Query(outcome, seconds) ==
    /\ at = "query"
    /\ cur' = [cur EXCEPT !.attempts = @ + 1,
                          !.elapsed = @ + seconds,
                          !.allFailed = @ /\ outcome # "listed",
                          !.ret = QueryResult(outcome, cur.default)]
    /\ at' = "decide"
    /\ UNCHANGED <<env, cache, callCount, otherVars>>

\* backoff: a truthy value ends the loop.
Success ==
    /\ at = "decide"
    /\ ~Falsy(cur.ret)
    /\ at' = "store"
    /\ UNCHANGED <<env, cache, callCount, cur, otherVars>>

\* backoff: a falsy value after max_time ends the loop with that value.
GiveUp ==
    /\ at = "decide"
    /\ Falsy(cur.ret)
    /\ cur.elapsedAtTry >= max_time
    /\ at' = "store"
    /\ UNCHANGED <<env, cache, callCount, cur, otherVars>>

\* backoff: a falsy value before max_time sleeps and tries again.
Backoff ==
    /\ at = "decide"
    /\ Falsy(cur.ret)
    /\ cur.elapsedAtTry < max_time
    /\ \E seconds \in NextWaits(cur.tries, cur.elapsedAtTry) :
          cur' = [cur EXCEPT !.elapsed = @ + seconds]
    /\ at' = "try"
    /\ UNCHANGED <<env, cache, callCount, otherVars>>

\* multiprocessing_cache, on exit: keep the result for the next calls.
Store ==
    /\ at = "store"
    /\ cache' = CacheHit(cur.ret)
    /\ at' = "done"
    /\ UNCHANGED <<env, callCount, cur, otherVars>>

\* The caller has the result.
Return ==
    /\ at = "done"
    /\ at' = "idle"
    /\ UNCHANGED <<env, cache, callCount, cur, otherVars>>

ResolveNext ==
    \/ \E v \in EnvValues : SetEnv(v)
    \/ UnsetEnv
    \/ Call
    \/ Try
    \/ \E outcome \in QueryOutcomes, seconds \in QuerySeconds : Query(outcome, seconds)
    \/ Success
    \/ GiveUp
    \/ Backoff
    \/ Store
    \/ Return

SpecResolve == ResolveInit /\ [][ResolveNext]_vars

\* C7: a call made while OCR_MODEL_NAME is set returns the value of
\* OCR_MODEL_NAME, whatever the arguments and whatever was resolved before.
C7_OverrideWins ==
    (at = "done" /\ cur.envAtCall.set) => cur.ret = cur.envAtCall.v

\* C8: with no override, an endpoint and only failing queries, a call that is
\* not answered from the cache queries more than once, goes on until
\* max_time is used up, and returns default_model_name.
C8_RetriesUntilBudget ==
    (at = "done" /\ ~cur.fromCache /\ ~cur.envAtCall.set
        /\ cur.endpoint # "" /\ cur.allFailed)
    => (cur.attempts > 1 /\ cur.elapsed >= max_time /\ cur.ret = cur.default)

-----------------------------------------------------------------------------
\* The embedding storage stage: upload_embeddings, _store_embeddings (which
\* calls upload_embeddings) and generate_embedding_storage_stage, each a body
\* inside "try: ... except Exception as e: raise type(e)(err_msg) from e".
\*
\* An exception is [kind, msg, link]; `flying` holds the exception being
\* raised followed by the exceptions it is chained to, and link says how an
\* exception refers to the next of the sequence: "cause" (raise ... from e),
\* "context" (raised while e was being handled) or "none" (nothing follows).
\* A message is a sequence of pieces of text.

Operations == {"upload_embeddings", "_store_embeddings", "generate_embedding_storage_stage"}

\* The kinds of exception a body may raise.  KeyError and ValueError take the
\* message as their one argument; minio's S3Error and UnicodeDecodeError need
\* more arguments than one; KeyboardInterrupt is no subclass of Exception.
Kinds ==
    {"KeyError", "ValueError", "RuntimeError", "S3Error", "UnicodeDecodeError",
     "KeyboardInterrupt"}
Messages == {<<"source_location">>, <<"connection refused">>}

\* isinstance(e, Exception): what "except Exception" catches.
IsException(kind) == kind # "KeyboardInterrupt"

\* type(e)(err_msg) returns an exception of that type.
TakesOneArgument(kind) == kind \notin {"S3Error", "UnicodeDecodeError"}

\* f"{e}": str() of an exception with one argument is that argument, for a
\* KeyError its repr.
Str(e) == IF e.kind = "KeyError" THEN <<"'">> \o e.msg \o <<"'">> ELSE e.msg

\* The text err_msg starts with, per operation.
Prefix(op) ==
    IF op = "upload_embeddings"
    THEN <<"upload_embeddings", ": Error uploading embeddings. Original error: ">>
    ELSE IF op = "_store_embeddings"
    THEN <<"_store_embeddings", ": Failed to store embeddings: ">>
    ELSE <<"generate_embedding_storage_stage",
           ": Error generating embedding storage stage. Original error: ">>

\* "raise type(e)(err_msg) from e" with e the head of the chain: the new
\* exception of e's type with e as its cause, or, when the type cannot be
\* built from the one string, the TypeError of that call with e as its
\* context.
Reraise(op, chain) ==
    IF TakesOneArgument(chain[1].kind)
    THEN <<[kind |-> chain[1].kind, msg |-> Prefix(op) \o Str(chain[1]),
            link |-> "cause"]>> \o chain
    ELSE <<[kind |-> "TypeError",
            msg |-> <<"__init__() missing required positional arguments">>,
            link |-> "context"]>> \o chain

NoFailure == [op |-> "", err |-> <<>>]
NoCall == [op |-> "", uploaded |-> FALSE]

StorageInit ==
    /\ stack = <<>>
    /\ phase = "idle"
    /\ flying = <<>>
    /\ first = NoFailure
    /\ outer = NoCall
    /\ RemapIdle /\ ParseIdle /\ ShapeIdle /\ FormatIdle /\ ResolveIdle

nonStorageVars == <<remapVars, parseVars, shapeVars, formatVars, resolveVars>>

\* The caller calls one of the three operations.
CallOperation(op) ==
    /\ phase = "idle"
    /\ stack' = <<op>>
    /\ phase' = "running"
    /\ flying' = <<>>
    /\ first' = NoFailure
    /\ outer' = [op |-> op, uploaded |-> FALSE]
    /\ UNCHANGED nonStorageVars

\* _store_embeddings reaches "df = upload_embeddings(df, params)".
CallUpload ==
    /\ phase = "running"
    /\ stack = <<"_store_embeddings">>
    /\ ~outer.uploaded
    /\ stack' = <<"upload_embeddings">> \o stack
    /\ outer' = [outer EXCEPT !.uploaded = TRUE]
    /\ UNCHANGED <<phase, flying, first, nonStorageVars>>

\* The body of the innermost operation raises (after upload_embeddings
\* returned, _store_embeddings only returns).
BodyRaises(kind, msg) ==
    /\ phase = "running"
    /\ ~(Head(stack) = "_store_embeddings" /\ outer.uploaded)
    /\ flying' = <<[kind |-> kind, msg |-> msg, link |-> "none"]>>
    /\ first' = [op |-> Head(stack), err |-> flying']
    /\ phase' = "raising"
    /\ UNCHANGED <<stack, outer, nonStorageVars>>

\* The exception leaves the innermost operation: through its except clause
\* when that catches it, as it is otherwise.
Handler ==
    /\ phase = "raising"
    /\ flying' = IF IsException(flying[1].kind) THEN Reraise(Head(stack), flying)
                 ELSE flying
    /\ stack' = Tail(stack)
    /\ phase' = IF Tail(stack) = <<>> THEN "done" ELSE "raising"
    /\ UNCHANGED <<first, outer, nonStorageVars>>

\* The innermost operation returns.
Returns ==
    /\ phase = "running"
    /\ stack' = Tail(stack)
    /\ phase' = IF Tail(stack) = <<>> THEN "done" ELSE "running"
    /\ UNCHANGED <<flying, first, outer, nonStorageVars>>

\* The caller has the result or the exception.
Finish ==
    /\ phase = "done"
    /\ phase' = "idle"
    /\ UNCHANGED <<stack, flying, first, outer, nonStorageVars>>

StorageNext ==
    \/ \E op \in Operations : CallOperation(op)
    \/ CallUpload
    \/ \E kind \in Kinds, msg \in Messages : BodyRaises(kind, msg)
    \/ Handler
    \/ Returns
    \/ Finish

SpecStorage == StorageInit /\ [][StorageNext]_vars

\* C16 (the claim as stated): a call in which an exception was raised ends
\* with an exception for the caller; that exception has the kind of the
\* original one, its message starts with the name of the operation called,
\* every exception of the chain is the cause of the one before it, with the
\* same kind and with a message that is an operation's prefix followed by
\* the message of its cause, and the chain ends in the original exception.
C16_SameKindChained ==
    (phase = "done" /\ first.op # "") =>
        /\ Len(flying) >= 2
        /\ flying[1].kind = first.err[1].kind
        /\ flying[1].msg[1] = outer.op
        /\ flying[Len(flying)] = first.err[1]
        /\ \A i \in 1..(Len(flying) - 1) :
              /\ flying[i].link = "cause"
              /\ flying[i].kind = flying[i + 1].kind
              /\ \E op \in Operations :
                    flying[i].msg = Prefix(op) \o Str(flying[i + 1])
=============================================================================
